---- MODULE Spec2Model ----
(***************************************************************************)
(* Model of src/main.py: the GenesysIDFinder client (authenticate,         *)
(* find_ids, find_recordings_by_conversation_id as finally bound, i.e. the *)
(* second definition) and the identifier-list driver main().               *)
(*                                                                         *)
(* The program is single-threaded.  Every step of the model is one         *)
(* externally visible operation of the program (one HTTP request together  *)
(* with the processing of its response, or one time.sleep), so that the    *)
(* order of requests and sleeps can be stated.  Time is counted in         *)
(* milliseconds, so that time.sleep(0.2) is an integer.                    *)
(***************************************************************************)
EXTENDS Integers, Sequences, FiniteSets, TLC

VARIABLES
    access_token,   \* self.access_token
    headers,        \* self.headers (the bearer token they carry, or None)
    file_exists,    \* os.path.exists(output_file)
    file_lines,     \* the rows of output_file, in order
    main,           \* the caller: main(), or a client of the class that works in
                    \* identifier mode ("ids") or in time-range mode ("range")
    auth,           \* the frame of authenticate()
    fetch,          \* the frame of find_recordings_by_conversation_id()
    rng,            \* the frame of find_ids()
    ev,             \* the last operation the program performed (observation)
    g               \* observation counters of the current calls (history)

vars == <<access_token, headers, file_exists, file_lines, main, auth, fetch, rng, ev, g>>

-----------------------------------------------------------------------------
(* Bounds of the exploration                                               *)

MaxCalls == 2        \* calls of find_recordings_by_conversation_id a client makes
MaxRuns == 1         \* calls of find_ids a client makes
MaxInput == 801      \* longest identifier list of the batch specification
MaxFileLines == 4    \* the output file is explored up to this many lines
MaxPages == 3        \* page queries explored per find_ids run

(* Program constants                                                       *)

AuthMaxRetries == 3      \* authenticate: max_retries
FetchMaxRetries_M == AuthMaxRetries + 1
FetchMaxRetries == 3     \* find_recordings_by_conversation_id: max_retries
BatchSize == 50          \* main: i % 50
IdLimit == 800           \* main: conversation_ids[:800]
CooldownSecs == 5        \* main: time.sleep(5)
RateDelayMs == 200       \* find_ids: time.sleep(0.2)

None == "None"
Absent == "ABSENT"       \* a key the JSON object does not have
NA == "N/A"              \* the sentinel of dict.get(key, 'N/A')
NoDuration == 0 - 1     \* durationMilliseconds is not a key

RECURSIVE Pow2(_)
Pow2(n) == IF n = 0 THEN 1 ELSE 2 * Pow2(n - 1)

Seconds(n) == 1000 * n

Min(a, b) == IF a < b THEN a ELSE b

IsPrefix(s, t) == Len(s) <= Len(t) /\ SubSeq(t, 1, Len(s)) = s

-----------------------------------------------------------------------------
(* JSON values as the program reads them.  A recording object is a record  *)
(* of the keys the program looks up, Absent where the object has no such   *)
(* key; mediaUri0 stands for mediaUris["0"]["mediaUri"], downloadUrl for   *)
(* download["url"], agent for agent["name"].                               *)

Rec(id, st, en, media, mtype, fstate, uri0, dl, dur, agent) ==
    [t |-> "dict", id |-> id, startTime |-> st, endTime |-> en, media |-> media,
     mediaType |-> mtype, fileState |-> fstate, mediaUri0 |-> uri0,
     downloadUrl |-> dl, duration |-> dur, agent |-> agent]

R1 == Rec("rec1", "s1", "e1", Absent, "audio", "AVAILABLE", "uri1", Absent, 1500, "ann")
R2 == Rec("rec2", Absent, Absent, Absent, Absent, Absent, Absent, "dl2", NoDuration, Absent)
Scalar == [t |-> "scalar"]                \* a JSON string, number or null
NoKey == [t |-> "nokey"]                  \* 'entities' is not a key
JList(items) == [t |-> "list", items |-> items]
JEntities(v) == [t |-> "dict", entities |-> v, self |-> R2]   \* {"entities": v, ...}
JBare(r) == [t |-> "dict", entities |-> NoKey, self |-> r]    \* an object without 'entities'

(* dict.get(key, default) on a recording object *)
Get(r, key, default) == IF r[key] = Absent THEN default ELSE r[key]

(* lines 209-213: the list of recordings of a response body *)
AsItem(v) == IF v.t = "dict" THEN v.self ELSE Scalar

Normalize_M(response_json) ==
    IF response_json.t = "dict"
    THEN (IF response_json.entities.t = "list" THEN response_json.entities.items ELSE <<>>)
    ELSE IF response_json.t = "list" THEN response_json.items ELSE <<Scalar>>

Normalize(response_json) ==
    LET recordings == IF response_json.t = "dict"
                      THEN (IF response_json.entities.t # "nokey"
                            THEN response_json.entities ELSE response_json)
                      ELSE response_json
    IN  IF recordings.t = "list" THEN recordings.items ELSE <<AsItem(recordings)>>

DetailHeader ==
    <<"Conversation ID", "Recording ID", "Start Time", "End Time", "Media Type",
      "File State", "Download URL">>

RangeHeader ==
    <<"Conversation ID", "Recording ID", "Start Time", "Duration (seconds)", "Agent Name">>

DetailRow_M(conversation_id, recording) ==
    <<conversation_id,
      Get(recording, "id", NA),
      Get(recording, "startTime", NA),
      Get(recording, "endTime", NA),
      Get(recording, "media", Get(recording, "mediaType", NA)),
      Get(recording, "fileState", NA),
      Get(recording, "downloadUrl", Get(recording, "mediaUri0", NA))>>

(* lines 229-238: the row of one recording *)
DetailRow(conversation_id, recording) ==
    <<conversation_id,
      Get(recording, "id", NA),
      Get(recording, "startTime", NA),
      Get(recording, "endTime", NA),
      Get(recording, "media", Get(recording, "mediaType", NA)),
      Get(recording, "fileState", NA),
      Get(recording, "mediaUri0", Get(recording, "downloadUrl", NA))>>

FileIsEmpty_M(exists, lines) == ~exists

(* lines 216-217: file_is_empty *)
FileIsEmpty(exists, lines) == ~exists \/ Len(lines) = 0

(* recording.get raises AttributeError on the first element that is no JSON
   object: the rows before it have been written, the rest are not *)
GoodPrefixLen(items) ==
    CHOOSE n \in 0..Len(items) :
        /\ \A k \in 1..n : items[k].t = "dict"
        /\ (n < Len(items) => items[n + 1].t # "dict")

OpenAppend_M(lines) == <<>>

(* line 220 (mode 'a'): what open() leaves of the file *)
OpenAppend(lines) == lines

WriteDetail_M(exists, lines, conversation_id, recordings) ==
    LET n == GoodPrefixLen(recordings)
        head == IF FileIsEmpty(exists, lines) THEN <<DetailHeader>> ELSE <<>>
        rows == [k \in 1..(n - 1) |-> DetailRow(conversation_id, recordings[k])]
    IN  [lines |-> OpenAppend(lines) \o head \o rows,
         header |-> FileIsEmpty(exists, lines),
         rows |-> Len(rows),
         error |-> n < Len(recordings)]

(* lines 215-240: what one successful response leaves in the file *)
WriteDetail(exists, lines, conversation_id, recordings) ==
    LET n == GoodPrefixLen(recordings)
        head == IF FileIsEmpty(exists, lines) THEN <<DetailHeader>> ELSE <<>>
        rows == [k \in 1..n |-> DetailRow(conversation_id, recordings[k])]
    IN  [lines |-> OpenAppend(lines) \o head \o rows,
         header |-> FileIsEmpty(exists, lines),
         rows |-> n,
         error |-> n < Len(recordings)]

-----------------------------------------------------------------------------
(* What the servers and the environment may answer                         *)

Tokens == {"", "t1", "t2"}      \* "" is a falsy access_token

(* a token request: ok, a transport/status failure (RequestException), a body
   without 'access_token' (KeyError), a body that is no JSON (response.json()
   raises; a RequestException or a plain ValueError, by the requests version) *)
TokenAnswers ==
    [kind : {"ok"}, token : Tokens]
        \cup [kind : {"fail", "nokey", "badjson_req", "badjson_val"}, token : {None}]

BatchTokenAnswers ==
    {[kind |-> "ok", token |-> "t1"], [kind |-> "fail", token |-> None],
     [kind |-> "nokey", token |-> None]}

Bodies ==
    {JList(<<>>), JList(<<R1>>), JList(<<R1, R2>>), JList(<<R1, Scalar>>),
     JEntities(JList(<<R1, R2>>)), JEntities(Scalar), JBare(R1), Scalar}

(* a detail request: ok with a body, a transport/status failure, a body that is
   no JSON, or a response whose rows cannot be written (open() raises OSError) *)
DetailAnswers ==
    [kind : {"ok"}, json : Bodies]
        \cup [kind : {"fail", "badjson_req", "badjson_val", "ioerr"}, json : {Scalar}]

BatchDetailAnswers ==
    {[kind |-> "ok", json |-> JList(<<>>)], [kind |-> "ok", json |-> Scalar],
     [kind |-> "fail", json |-> Scalar]}

(* recording objects with every subset of the keys the row is built from *)
RowRecords ==
    {Rec(id, st, en, media, mtype, fstate, uri0, dl, NoDuration, Absent) :
        id \in {Absent, "rec1"}, st \in {Absent, "s1"}, en \in {Absent, "e1"},
        media \in {Absent, "screen"}, mtype \in {Absent, "audio"},
        fstate \in {Absent, "AVAILABLE"}, uri0 \in {Absent, "uri1"},
        dl \in {Absent, "dl1"}}

RowAnswers == [kind : {"ok"}, json : {JList(<<r>>) : r \in RowRecords}]

IsRequestException_M(kind) == kind \in {"fail", "badjson_req", "nokey"}

(* lines 50 and 242: what the handlers of requests.exceptions.RequestException
   catch *)
IsRequestException(kind) == kind \in {"fail", "badjson_req"}

ConvIds == {"c1", "c2"}

IdAt(k) == IF k % 2 = 1 THEN "c1" ELSE "c2"
InputList(n) == [k \in 1..n |-> IdAt(k)]

BatchInputs == {InputList(120), InputList(MaxInput)}

(* the file a run may find at its output path: none, an empty one, or the
   output of an earlier identifier-list run *)
OldFile == <<DetailHeader, DetailRow("c0", R1), DetailRow("c0", R2)>>
InitFiles == {[exists |-> FALSE, lines |-> <<>>], [exists |-> TRUE, lines |-> <<>>],
              [exists |-> TRUE, lines |-> OldFile]}

-----------------------------------------------------------------------------
(* Frames and observations                                                 *)

NoHeaders == <<>>                        \* self.headers = None
Bearer_M(token) == <<"Bearer", access_token>>

(* lines 43-46: {'Authorization': 'Bearer <token>', ...} *)
Bearer(token) == <<"Bearer", token>>
Truthy(token) == token # None /\ token # ""

AuthIdle == [pc |-> "idle", attempt |-> 0, ret |-> "none"]
AuthBegin(caller) == [pc |-> "post", attempt |-> 0, ret |-> caller]
FetchIdle == [pc |-> "idle", attempt |-> 0, conv |-> None]
RngIdle ==
    [pc |-> "idle", pageNumber |-> 0, page_count |-> 1, conversations |-> <<>>,
     idx |-> 0, nextUri |-> FALSE, recordings |-> <<>>, interval |-> <<>>]

Ev(op, k, ms, res) == [op |-> op, k |-> k, ms |-> ms, res |-> res]

(* observations of the run; the per-call ones are reset when a call starts *)
GInit(f) ==
    [token_reqs |-> 0,        \* token requests of the current authenticate()
     auth_status |-> "running",
     gets |-> 0,              \* detail GETs of the current fetch call
     reauths |-> 0,           \* authenticate() calls of the current fetch call
     call_token_reqs |-> 0,   \* token requests of the current fetch call
     slept |-> 0,             \* ms slept since the last detail GET of the call
     path |-> <<>>,           \* what the call did since its last detail GET
     backoff |-> 0,           \* ms of the last backoff sleep of the fetch call
     gap_slept |-> 0,         \* slept, path, backoff as the last detail GET found them
     gap_path |-> <<>>,
     gap_backoff |-> 0,
     status |-> "none",       \* of the current or last fetch call
     ret |-> <<>>,            \* the list the last fetch call returned
     failed |-> FALSE,        \* the last finished fetch call did not succeed
     write_attempts |-> 0,    \* attempts of the call that wrote to the file
     rows_in_call |-> 0,
     hdr_in_call |-> FALSE,
     calls |-> 0,             \* fetch calls main() has made
     cooldowns |-> 0,         \* cooldown sleeps main() has made
     cooled_at |-> 0,         \* the position after which the last one was made
     arrived |-> <<>>,        \* <<conversation, recording>> of the successful fetches
     any_success |-> FALSE,
     partial |-> FALSE,       \* a fetch that failed has written to the file
     file0 |-> f,             \* the file the run found
     runs |-> 0,              \* find_ids calls the client has made
     queries |-> 0,           \* page queries of the current find_ids
     pages |-> <<>>,          \* the page each of them addressed
     range_failed |-> FALSE,  \* an exception ended the page loop
     got |-> <<>>,            \* conversations of the page whose detail GET was issued
     done |-> <<>>,           \* conversations of the page that are processed
     page_complete |-> TRUE,  \* every page was processed before the next query
     file_before |-> <<>>,    \* the file as find_ids found it
     range_rows |-> <<>>,     \* the rows find_ids wrote, in order
     rested |-> TRUE,         \* the run has slept since its last detail GET
     body |-> Scalar,         \* the body of the last detail response of the call
     dates |-> <<>>,          \* the start and end date find_ids was called with
     lines_at_call |-> 0,     \* the length of the file when the fetch call started
     start_auth |-> FALSE]    \* the fetch call began with authenticate() (line 196)

GCallStart(gg) ==
    [gg EXCEPT !.gets = 0, !.reauths = 0, !.call_token_reqs = 0, !.slept = 0,
               !.path = <<>>, !.backoff = 0, !.gap_slept = 0, !.gap_path = <<>>,
               !.gap_backoff = 0, !.status = "running", !.ret = <<>>,
               !.write_attempts = 0, !.rows_in_call = 0, !.hdr_in_call = FALSE,
               !.calls = @ + 1, !.body = Scalar, !.lines_at_call = Len(file_lines)]

GAuthStart(gg) == [gg EXCEPT !.token_reqs = 0, !.auth_status = "running"]

FetchCatch_M == "raised"

(* lines 255-257: an exception inside find_recordings_by_conversation_id *)
FetchCatch == "returned"       \* logged, return []

(* the call ended: how is "returned" (with list) or "raised" *)
GFetchEnd(gg, how, list, ok) ==
    [gg EXCEPT !.status = how, !.ret = list, !.failed = ~ok,
               !.any_success = @ \/ ok,
               !.slept = 0, !.path = <<>>, !.backoff = 0]

NeedsCooldown_M(i) == (i - 1) % BatchSize = 0

(* line 448 *)
NeedsCooldown(i) == i % BatchSize = 0

(* lines 443-454: main() after the call for item i; a raised exception is
   logged and the loop continues *)
MainAfterFetch(m, how) ==
    IF m.mode # "main" THEN [m EXCEPT !.pc = "idle"]
    ELSE IF how = "returned" /\ NeedsCooldown(m.i)
    THEN [m EXCEPT !.pc = "cooldown"]
    ELSE [m EXCEPT !.pc = "loop"]

AuthBackoff_M(attempt) == Seconds(Pow2(attempt + 1))

(* line 53: time.sleep(2 ** attempt) *)
AuthBackoff(attempt) == Seconds(Pow2(attempt))

FetchBackoff_M(attempt) == Seconds(Pow2(attempt + 1))

(* line 248: time.sleep(2 ** attempt) *)
FetchBackoff(attempt) == Seconds(Pow2(attempt))

Truncate_M(ids) == SubSeq(ids, 1, Min(Len(ids), IdLimit + 1))

(* line 433 *)
Truncate(ids) == SubSeq(ids, 1, Min(Len(ids), IdLimit))

-----------------------------------------------------------------------------
(* authenticate(), lines 25-58                                             *)

AuthResult_M(o) ==
    IF o.kind = "ok" THEN "returned"
    ELSE IF IsRequestException(o.kind) /\ auth.attempt < AuthMaxRetries - 1 THEN "retry"
    ELSE "returned"

(* lines 37-58: what authenticate() does with the answer of a token request *)
AuthResult(o) ==
    IF o.kind = "ok" THEN "returned"
    ELSE IF IsRequestException(o.kind) /\ auth.attempt < AuthMaxRetries - 1 THEN "retry"
    ELSE "raised"

(* one token request and what authenticate() and its caller do with the answer *)
AuthPost(o) ==
    /\ auth.pc = "post"
    /\ LET res == AuthResult(o)
           infetch == auth.ret \in {"fetch_start", "fetch_retry"}
           g1 == [g EXCEPT !.token_reqs = @ + 1,
                           !.call_token_reqs = IF infetch THEN @ + 1 ELSE @,
                           !.auth_status = IF res = "retry" THEN "running" ELSE res]
       IN  /\ access_token' = IF res = "returned" THEN o.token ELSE access_token
           /\ headers' = IF res = "returned" THEN Bearer(o.token) ELSE headers
           /\ auth' = IF res = "retry" THEN [auth EXCEPT !.pc = "sleep"] ELSE AuthIdle
           /\ fetch' = CASE res = "retry" \/ ~infetch -> fetch
                         [] res = "returned" /\ auth.ret = "fetch_start" ->
                                [fetch EXCEPT !.pc = "get"]
                         [] res = "returned" /\ auth.ret = "fetch_retry" ->
                                [fetch EXCEPT !.pc = "backoff"]
                         [] OTHER -> FetchIdle
           /\ main' = CASE res = "retry" -> main
                        [] auth.ret = "ctor" /\ res = "returned" ->
                               [main EXCEPT !.pc = IF main.mode = "main" THEN "read" ELSE "idle"]
                        [] auth.ret = "ctor" ->
                               [main EXCEPT !.pc = "done", !.error = "critical"]
                        [] res = "returned" -> main
                        [] OTHER -> MainAfterFetch(main, FetchCatch)
           /\ g' = IF infetch /\ res = "raised"
                   THEN GFetchEnd(g1, FetchCatch, <<>>, FALSE)
                   ELSE g1
           /\ ev' = Ev("token_post", auth.attempt, 0, o.kind)
    /\ UNCHANGED <<file_exists, file_lines, rng>>

AuthSleep ==
    /\ auth.pc = "sleep"
    /\ auth' = [auth EXCEPT !.pc = "post", !.attempt = @ + 1]
    /\ ev' = Ev("sleep_auth", auth.attempt, AuthBackoff(auth.attempt), "")
    /\ g' = [g EXCEPT !.slept = @ + AuthBackoff(auth.attempt), !.rested = TRUE]
    /\ UNCHANGED <<access_token, headers, file_exists, file_lines, main, fetch, rng>>

-----------------------------------------------------------------------------
(* main(), lines 416-459                                                   *)

(* line 430 and line 433: the input resolver's list, cut to its first 800 *)
ReadIds(ids) ==
    /\ main.pc = "read"
    /\ main' = [main EXCEPT !.pc = "loop", !.conversation_ids = Truncate(ids),
                            !.n_input = Len(ids), !.i = 0]
    /\ ev' = Ev("read_ids", Len(ids), 0, "ok")
    /\ UNCHANGED <<access_token, headers, file_exists, file_lines, auth, fetch, rng, g>>

(* read_conversation_ids raises (lines 388, 394, 403): line 458 *)
ReadIdsFail ==
    /\ main.pc = "read"
    /\ main' = [main EXCEPT !.pc = "done", !.error = "critical"]
    /\ ev' = Ev("read_ids", 0, 0, "raised")
    /\ UNCHANGED <<access_token, headers, file_exists, file_lines, auth, fetch, rng, g>>

(* lines 193-201: find_recordings_by_conversation_id(conversation_id) is
   entered; a falsy token is renewed first *)
EnterFetch(conversation_id) ==
    LET needs_auth == ~Truthy(access_token)
    IN  /\ fetch' = [pc |-> IF needs_auth THEN "auth_start" ELSE "get",
                     attempt |-> 0, conv |-> conversation_id]
        /\ auth' = IF needs_auth THEN AuthBegin("fetch_start") ELSE auth
        /\ g' = IF needs_auth
                THEN [GAuthStart(GCallStart(g)) EXCEPT !.reauths = 1, !.start_auth = TRUE]
                ELSE [GCallStart(g) EXCEPT !.start_auth = FALSE]
        /\ UNCHANGED <<access_token, headers, file_exists, file_lines, rng>>

(* lines 439-443: main() hands the next identifier to the fetch *)
CallFetch ==
    /\ main.pc = "loop"
    /\ main.i < Len(main.conversation_ids)
    /\ main' = [main EXCEPT !.i = @ + 1, !.pc = "in_fetch"]
    /\ ev' = Ev("call_fetch", main.i + 1, 0, main.conversation_ids[main.i + 1])
    /\ EnterFetch(main.conversation_ids[main.i + 1])

(* a client of the class calls find_recordings_by_conversation_id *)
ClientFetch(conversation_id) ==
    /\ main.mode = "ids"
    /\ main.pc = "idle"
    /\ g.calls < MaxCalls
    /\ main' = [main EXCEPT !.pc = "in_fetch"]
    /\ ev' = Ev("call_fetch", 0, 0, conversation_id)
    /\ EnterFetch(conversation_id)

(* line 456 *)
MainFinish ==
    /\ main.pc = "loop"
    /\ main.i = Len(main.conversation_ids)
    /\ main' = [main EXCEPT !.pc = "done"]
    /\ ev' = Ev("return", main.i, 0, "")
    /\ UNCHANGED <<access_token, headers, file_exists, file_lines, auth, fetch, rng, g>>

(* lines 448-450 *)
Cooldown ==
    /\ main.pc = "cooldown"
    /\ main' = [main EXCEPT !.pc = "loop"]
    /\ ev' = Ev("sleep_cooldown", main.i, Seconds(CooldownSecs), "")
    /\ g' = [g EXCEPT !.cooldowns = @ + 1, !.cooled_at = main.i, !.rested = TRUE]
    /\ UNCHANGED <<access_token, headers, file_exists, file_lines, auth, fetch, rng>>

-----------------------------------------------------------------------------
(* find_recordings_by_conversation_id(), lines 192-257                     *)

DetailOutcome_M(o, w) ==
    CASE o.kind = "ok" /\ ~w.error -> "success"
      [] o.kind = "ok" \/ IsRequestException(o.kind) ->
            IF fetch.attempt < FetchMaxRetries - 1 THEN "retry" ELSE "exhausted"
      [] OTHER -> "exception"

(* lines 203-257: how one attempt ends, by the answer o and the write w *)
DetailOutcome(o, w) ==
    CASE o.kind = "ok" /\ ~w.error -> "success"
      [] o.kind = "ok" -> "exception"
      [] IsRequestException(o.kind) ->
            IF fetch.attempt < FetchMaxRetries - 1 THEN "retry" ELSE "exhausted"
      [] OTHER -> "exception"

(* one detail GET, the rows written from its answer, and what the call and
   main() do next *)
DetailGet(o) ==
    /\ fetch.pc = "get"
    /\ LET recordings == Normalize(o.json)
           w == WriteDetail(file_exists, file_lines, fetch.conv, recordings)
           writes == o.kind = "ok"
           out == DetailOutcome(o, w)
           how == IF out = "exception" THEN FetchCatch ELSE "returned"
           g1 == [g EXCEPT !.gets = @ + 1, !.rested = FALSE, !.body = o.json,
                           !.gap_slept = g.slept, !.gap_path = g.path,
                           !.gap_backoff = g.backoff,
                           !.slept = 0, !.backoff = 0,
                           !.path = IF out = "retry" THEN <<"reauth">> ELSE <<>>,
                           !.reauths = IF out = "retry" THEN @ + 1 ELSE @,
                           !.write_attempts = IF writes THEN @ + 1 ELSE @,
                           !.rows_in_call = IF writes THEN @ + w.rows ELSE @,
                           !.hdr_in_call = @ \/ (writes /\ w.header),
                           !.partial = @ \/ (writes /\ w.error
                                               /\ (w.header \/ w.rows > 0)),
                           !.arrived = IF out = "success"
                                       THEN @ \o [k \in 1..Len(recordings) |->
                                                     <<fetch.conv, recordings[k]>>]
                                       ELSE @]
       IN  /\ writes => Len(w.lines) <= MaxFileLines
           /\ file_exists' = (file_exists \/ writes)
           /\ file_lines' = IF writes THEN w.lines ELSE file_lines
           /\ fetch' = IF out = "retry" THEN [fetch EXCEPT !.pc = "reauth"] ELSE FetchIdle
           /\ auth' = IF out = "retry" THEN AuthBegin("fetch_retry") ELSE auth
           /\ main' = IF out = "retry" THEN main ELSE MainAfterFetch(main, how)
           /\ g' = CASE out = "retry" -> GAuthStart(g1)
                     [] out = "success" -> GFetchEnd(g1, "returned", recordings, TRUE)
                     [] OTHER -> GFetchEnd(g1, how, <<>>, FALSE)
           /\ ev' = Ev("detail_get", fetch.attempt, 0, o.kind)
    /\ UNCHANGED <<access_token, headers, rng>>

(* line 248 *)
FetchSleep ==
    /\ fetch.pc = "backoff"
    /\ fetch' = [fetch EXCEPT !.pc = "get", !.attempt = @ + 1]
    /\ ev' = Ev("sleep_fetch", fetch.attempt, FetchBackoff(fetch.attempt), "")
    /\ g' = [g EXCEPT !.slept = @ + FetchBackoff(fetch.attempt),
                      !.backoff = FetchBackoff(fetch.attempt),
                      !.path = Append(@, "backoff"), !.rested = TRUE]
    /\ UNCHANGED <<access_token, headers, file_exists, file_lines, main, auth, rng>>

-----------------------------------------------------------------------------
(* find_ids(), lines 60-148                                                *)

(* a page query: ok with data, a transport/status failure, or a body that is
   no JSON; nextUri is the continuation evidence *)
PageAnswers ==
    [kind : {"ok"}, conversations : {<<>>, <<"c1">>, <<"c1", "c2">>}, nextUri : BOOLEAN]
        \cup [kind : {"fail", "badjson_req", "badjson_val"}, conversations : {<<>>},
              nextUri : {FALSE}]

(* a detail request of find_ids: status 200 with a body, another status, a
   transport failure (requests.get raises), or a 200 whose body is no JSON *)
ConvAnswers ==
    [kind : {"ok"}, json : {JList(<<>>), JList(<<R1, R2>>), JList(<<R1, Scalar>>),
                            JEntities(JList(<<R1>>))}]
        \cup [kind : {"status", "fail", "badjson_val"}, json : {Scalar}]

(* Calendar dates as datetime keeps them.  A date string 'YYYY-MM-DD' is the
   record of its three numbers; a datetime adds hour, minute and second.
   datetime + timedelta goes through the proleptic Gregorian ordinal of the
   date (day 1 is 0001-01-01). *)
Date(year, month, day) == [year |-> year, month |-> month, day |-> day]

IsLeap(year) == year % 4 = 0 /\ (year % 100 # 0 \/ year % 400 = 0)

DaysInMonthTable == <<31, 28, 31, 30, 31, 30, 31, 31, 30, 31, 30, 31>>

DaysInMonth(year, month) ==
    IF month = 2 /\ IsLeap(year) THEN 29 ELSE DaysInMonthTable[month]

DaysBeforeYear(year) ==
    LET y == year - 1 IN y * 365 + y \div 4 - y \div 100 + y \div 400

RECURSIVE DaysBeforeMonth(_, _)
DaysBeforeMonth(year, month) ==
    IF month = 1 THEN 0
    ELSE DaysBeforeMonth(year, month - 1) + DaysInMonth(year, month - 1)

Ymd2Ord(year, month, day) == DaysBeforeYear(year) + DaysBeforeMonth(year, month) + day

(* the date of an ordinal, by 400-, 100-, 4- and 1-year cycles *)
Ord2Ymd(ordinal) ==
    LET n0 == ordinal - 1
        n400 == n0 \div 146097
        r400 == n0 % 146097
        n100 == r400 \div 36524
        r100 == r400 % 36524
        n4 == r100 \div 1461
        r4 == r100 % 1461
        n1 == r4 \div 365
        n == r4 % 365
        year == n400 * 400 + 1 + n100 * 100 + n4 * 4 + n1
        leapyear == n1 = 3 /\ (n4 # 24 \/ n100 = 3)
        m0 == (n + 50) \div 32
        before(m) == DaysBeforeMonth(1, m) + (IF m > 2 /\ leapyear THEN 1 ELSE 0)
        month == IF before(m0) > n THEN m0 - 1 ELSE m0
    IN  IF n1 = 4 \/ n100 = 4 THEN Date(year - 1, 12, 31)
        ELSE Date(year, month, n - before(month) + 1)

(* datetime.strptime(s, '%Y-%m-%d'): midnight of the date *)
Strptime(date) ==
    [year |-> date.year, month |-> date.month, day |-> date.day,
     hour |-> 0, minute |-> 0, second |-> 0]

(* datetime + timedelta(days=days) *)
AddDays(dt, days) ==
    LET d == Ord2Ymd(Ymd2Ord(dt.year, dt.month, dt.day) + days)
    IN  [dt EXCEPT !.year = d.year, !.month = d.month, !.day = d.day]

(* datetime.isoformat(): 'YYYY-MM-DDTHH:MM:SS', as the sequence of its parts *)
Isoformat(dt) == <<dt.year, dt.month, dt.day, "T", dt.hour, dt.minute, dt.second>>

(* line 70 *)
StartDt(start_date) == Strptime(start_date)

EndDt_M(end_date) == Strptime(end_date)

(* line 71 *)
EndDt(end_date) == AddDays(Strptime(end_date), 1)

(* line 81: f"{start_dt.isoformat()}Z/{end_dt.isoformat()}Z" *)
Interval(start_date, end_date) ==
    <<Isoformat(StartDt(start_date)), "Z/", Isoformat(EndDt(end_date)), "Z">>

(* the dates a client asks for: the 1st, the 15th and the last days of every
   month of common, leap and century years *)
Years == {1999, 2000, 2023, 2024, 2100}
Dates ==
    {Date(y, m, d) : y \in Years, m \in 1..12, d \in {1, 15, 27, 28, 29, 30, 31}}
ValidDates == {d \in Dates : d.day <= DaysInMonth(d.year, d.month)}
StartDates == {Date(2024, 1, 1), Date(2023, 12, 31)}
DefaultDate == Date(2024, 1, 1)

(* lines 120-126 *)
RangeRow(conv_id, recording) ==
    LET ms == IF recording.duration = NoDuration THEN 0 ELSE recording.duration
    IN  <<conv_id,
          Get(recording, "id", NA),
          Get(recording, "startTime", NA),
          <<ms \div 1000, ms % 1000>>,
          Get(recording, "agent", NA)>>

(* line 88 (mode 'w'): what open() leaves of the file *)
OpenWrite(lines) == <<>>

(* line 137: the pageNumber put into the body after page page_count *)
NextPageNumber(page_count) == page_count

(* the page a body addresses: the API's first page when pageNumber is not set *)
AddressedPage(pageNumber) == IF pageNumber = 0 THEN 1 ELSE pageNumber

PageLoopCatch_M == "continue"

(* lines 140-145: an exception in the page loop *)
PageLoopCatch == "break"

ConvAt_M(conversations, idx) == conversations[Len(conversations) - idx + 1]

(* line 111: the conversation the loop takes as its idx-th *)
ConvAt(conversations, idx) == conversations[idx]

(* lines 134-138, after the last conversation of a page *)
PageAdvance(r) ==
    IF ~r.nextUri THEN [r EXCEPT !.pc = "closing"]
    ELSE [r EXCEPT !.pc = "query", !.pageNumber = NextPageNumber(r.page_count),
                   !.page_count = @ + 1]

(* the exception handlers of the loop *)
PageAbort(r) == [r EXCEPT !.pc = IF PageLoopCatch = "break" THEN "closing" ELSE "query"]

(* lines 119-127: the rows of one conversation; iterating anything but a list
   of objects raises *)
WriteRange(lines, conv_id, recordings) ==
    LET items == IF recordings.t = "list" THEN recordings.items ELSE <<Scalar>>
        n == GoodPrefixLen(items)
        rows == [k \in 1..n |-> RangeRow(conv_id, items[k])]
    IN  [lines |-> lines \o rows, rows |-> rows, error |-> n < Len(items)]

(* a client calls find_ids: lines 69-93 *)
ClientFindIds(start_date, end_date) ==
    /\ main.mode = "range"
    /\ main.pc = "idle"
    /\ g.runs < MaxRuns
    /\ main' = [main EXCEPT !.pc = "in_find_ids"]
    /\ rng' = [RngIdle EXCEPT !.pc = "query", !.interval = Interval(start_date, end_date)]
    /\ file_exists' = TRUE
    /\ file_lines' = OpenWrite(file_lines) \o <<RangeHeader>>
    /\ g' = [g EXCEPT !.runs = @ + 1, !.queries = 0, !.pages = <<>>,
                      !.range_failed = FALSE, !.got = <<>>, !.done = <<>>,
                      !.page_complete = TRUE, !.file_before = file_lines,
                      !.range_rows = <<>>, !.dates = <<start_date, end_date>>]
    /\ ev' = Ev("open", 0, 0, "w")
    /\ UNCHANGED <<access_token, headers, auth, fetch>>

(* lines 98-109 *)
PageQuery(o) ==
    /\ rng.pc = "query"
    /\ (o.kind = "ok" /\ o.nextUri) => rng.page_count < MaxPages
    /\ LET r1 == [rng EXCEPT !.conversations = o.conversations, !.nextUri = o.nextUri,
                             !.idx = 1, !.recordings = <<>>]
       IN  rng' = CASE o.kind # "ok" -> PageAbort(rng)
                    [] o.conversations = <<>> -> PageAdvance(r1)
                    [] OTHER -> [r1 EXCEPT !.pc = "conv_get"]
    /\ g' = [g EXCEPT !.queries = @ + 1,
                      !.pages = Append(@, AddressedPage(rng.pageNumber)),
                      !.page_complete = @ /\ (g.done = rng.conversations),
                      !.got = <<>>, !.done = <<>>,
                      !.range_failed = @ \/ o.kind # "ok"]
    /\ ev' = Ev("page_post", rng.pageNumber, 0, o.kind)
    /\ UNCHANGED <<access_token, headers, file_exists, file_lines, main, auth, fetch>>

(* lines 112-118 and 128-129 *)
ConvGet(o) ==
    /\ rng.pc = "conv_get"
    /\ LET conv_id == ConvAt(rng.conversations, rng.idx)
       IN  /\ rng' = CASE o.kind = "ok" -> [rng EXCEPT !.pc = "conv_write",
                                                       !.recordings = o.json]
                        [] o.kind = "status" -> [rng EXCEPT !.pc = "conv_sleep"]
                        [] OTHER -> PageAbort(rng)
           /\ g' = [g EXCEPT !.got = Append(@, conv_id),
                             !.done = IF o.kind = "status" THEN Append(@, conv_id) ELSE @,
                             !.range_failed = @ \/ o.kind \notin {"ok", "status"}]
           /\ ev' = Ev("conv_get", rng.idx, 0, o.kind)
    /\ UNCHANGED <<access_token, headers, file_exists, file_lines, main, auth, fetch>>

(* lines 119-127 *)
ConvWrite ==
    /\ rng.pc = "conv_write"
    /\ LET conv_id == ConvAt(rng.conversations, rng.idx)
           w == WriteRange(file_lines, conv_id, rng.recordings)
       IN  /\ Len(w.lines) <= MaxFileLines
           /\ file_lines' = w.lines
           /\ rng' = IF w.error THEN PageAbort([rng EXCEPT !.recordings = <<>>])
                     ELSE [rng EXCEPT !.pc = "conv_sleep", !.recordings = <<>>]
           /\ g' = [g EXCEPT !.done = IF w.error THEN @ ELSE Append(@, conv_id),
                             !.range_rows = @ \o w.rows,
                             !.range_failed = @ \/ w.error]
           /\ ev' = Ev("write_rows", rng.idx, 0, IF w.error THEN "raised" ELSE "ok")
    /\ UNCHANGED <<access_token, headers, file_exists, main, auth, fetch>>

(* line 132, then the next conversation or lines 134-138 *)
ConvSleep ==
    /\ rng.pc = "conv_sleep"
    /\ rng' = IF rng.idx < Len(rng.conversations)
              THEN [rng EXCEPT !.pc = "conv_get", !.idx = @ + 1]
              ELSE PageAdvance(rng)
    /\ ev' = Ev("sleep_rate", rng.idx, RateDelayMs, "")
    /\ UNCHANGED <<access_token, headers, file_exists, file_lines, main, auth, fetch, g>>

(* lines 147-148: the file is closed and find_ids returns *)
FindIdsReturn ==
    /\ rng.pc = "closing"
    /\ rng' = RngIdle
    /\ main' = [main EXCEPT !.pc = "idle"]
    /\ ev' = Ev("return", 0, 0, "find_ids")
    /\ UNCHANGED <<access_token, headers, file_exists, file_lines, auth, fetch, g>>

-----------------------------------------------------------------------------
InitWith(modes, files) ==
    /\ access_token = None
    /\ headers = NoHeaders
    /\ \E f \in files :
          /\ file_exists = f.exists
          /\ file_lines = f.lines
          /\ g = GInit(f)
    /\ \E m \in modes :
          main = [mode |-> m, pc |-> "ctor", conversation_ids |-> <<>>, n_input |-> 0,
                  i |-> 0, error |-> "none"]
    /\ auth = AuthBegin("ctor")
    /\ fetch = FetchIdle
    /\ rng = RngIdle
    /\ ev = Ev("start", 0, 0, "")

Init == InitWith({"ids", "range"}, InitFiles)

Next ==
    \/ \E o \in TokenAnswers : AuthPost(o)
    \/ AuthSleep
    \/ \E c \in ConvIds : ClientFetch(c)
    \/ \E o \in DetailAnswers : DetailGet(o)
    \/ FetchSleep
    \/ ClientFindIds(DefaultDate, DefaultDate)
    \/ \E o \in PageAnswers : PageQuery(o)
    \/ \E o \in ConvAnswers : ConvGet(o)
    \/ ConvWrite
    \/ ConvSleep
    \/ FindIdsReturn

Spec == Init /\ [][Next]_vars

InitMain == InitWith({"main"}, {[exists |-> FALSE, lines |-> <<>>]})

NextMain ==
    \/ \E o \in BatchTokenAnswers : AuthPost(o)
    \/ AuthSleep
    \/ \E ids \in BatchInputs : ReadIds(ids)
    \/ ReadIdsFail
    \/ CallFetch
    \/ MainFinish
    \/ Cooldown
    \/ \E o \in BatchDetailAnswers : DetailGet(o)
    \/ FetchSleep

SpecMain == InitMain /\ [][NextMain]_vars

(* a client fetches recordings that carry any subset of the exported keys and
   appends them to the output of an earlier run *)
InitRow == InitWith({"ids"}, {[exists |-> TRUE, lines |-> OldFile]})

NextRow ==
    \/ AuthPost([kind |-> "ok", token |-> "t1"])
    \/ ClientFetch("c1")
    \/ \E o \in RowAnswers : DetailGet(o)

SpecRow == InitRow /\ [][NextRow]_vars

(* a client calls find_ids with any start and end date *)
InitDates == InitWith({"range"}, {[exists |-> FALSE, lines |-> <<>>]})

DatesPageAnswers ==
    {[kind |-> "ok", conversations |-> <<>>, nextUri |-> FALSE],
     [kind |-> "fail", conversations |-> <<>>, nextUri |-> FALSE]}

NextDates ==
    \/ AuthPost([kind |-> "ok", token |-> "t1"])
    \/ \E s \in StartDates, e \in ValidDates : ClientFindIds(s, e)
    \/ \E o \in DatesPageAnswers : PageQuery(o)
    \/ FindIdsReturn

SpecDates == InitDates /\ [][NextDates]_vars

-----------------------------------------------------------------------------
(* Properties                                                              *)

(* one step of a run, seen from the token requests and sleeps of authenticate() *)
C1_Step ==
    /\ g'.token_reqs <= 3
    /\ (ev.op = "token_post" /\ ev.res = "fail" /\ g.token_reqs \in {1, 2})
          => /\ ev'.op = "sleep_auth"
             /\ ev'.ms = (IF g.token_reqs = 1 THEN 1000 ELSE 2000)
             /\ g'.token_reqs = g.token_reqs
    /\ ev.op = "sleep_auth"
          => ev'.op = "token_post" /\ g'.token_reqs = g.token_reqs + 1
    /\ (ev.op = "token_post" /\ ev.res = "fail" /\ g.token_reqs = 3)
          => /\ g.auth_status = "raised"
             /\ ev'.op # "sleep_auth"
             /\ (ev'.op = "token_post" => g'.token_reqs = 1)
    /\ (ev.op = "token_post" /\ ev.res = "ok")
          => /\ g.auth_status = "returned"
             /\ ev'.op # "sleep_auth"
             /\ (ev'.op = "token_post" => g'.token_reqs = 1)

(* C1: authenticate() issues at most 3 token requests per call; after a
   transport/status failure of attempt k (k = 0 or 1) it sleeps exactly 2^k
   seconds and then issues the next attempt; after the 3rd failed attempt it
   raises without sleeping and without a 4th request; after a successful
   attempt it returns at once with no further request. *)
C1_AuthRetrySchedule == [][C1_Step]_vars

(* the 3rd attempt of a call has failed after two backoff sleeps *)
C1_Witness ==
    /\ ev.op = "token_post" /\ ev.res = "fail"
    /\ g.token_reqs = 3 /\ g.auth_status = "raised" /\ g.slept >= 3000

(* C2 as stated: when the detail GET of attempt k (k = 0 or 1) has failed, the
   next detail GET of the call is preceded by a re-authentication and then a
   backoff, the total time slept between the two GETs is 2^k seconds, and a
   call issues at most 3 detail GETs. *)
C2_Original ==
    (ev.op = "detail_get" /\ g.gets >= 2)
       => /\ g.gap_path = <<"reauth", "backoff">>
          /\ g.gap_slept = (IF g.gets = 2 THEN 1000 ELSE 2000)
          /\ g.gets <= 3

(* C2 as amended: the next detail GET is preceded, in this order, by a
   re-authentication and a backoff sleep of exactly 2^k seconds; the total time
   slept between the two GETs is 2^k seconds plus what the re-authentication
   slept itself (0, 1 or 3 seconds); a call issues at most 3 detail GETs. *)
C2_RetryGap ==
    /\ g.gets <= 3
    /\ (ev.op = "detail_get" /\ g.gets >= 2)
          => /\ g.gap_path = <<"reauth", "backoff">>
             /\ g.gap_backoff = (IF g.gets = 2 THEN 1000 ELSE 2000)
             /\ g.gap_slept - g.gap_backoff \in {0, 1000, 3000}

(* the 3rd detail GET of a call, after a re-authentication that slept 3 s *)
C2_Witness ==
    /\ ev.op = "detail_get" /\ g.gets = 3
    /\ g.gap_backoff = 2000 /\ g.gap_slept = 5000

(* C3: find_recordings_by_conversation_id never raises and returns a list, the
   empty list whenever the detail request did not succeed (detail failures,
   failed re-authentication, malformed payloads, file-write errors). *)
C3_NeverRaises ==
    /\ g.status # "raised"
    /\ (/\ g.status = "returned"
        /\ ev.op \in {"token_post", "detail_get"}
        /\ ~(ev.op = "detail_get" /\ ev.res = "ok"))
          => g.ret = <<>>
    /\ (g.status = "returned" /\ g.failed) => g.ret = <<>>

(* a re-authentication in the middle of the retry loop used up its 3 attempts *)
C3_Witness ==
    /\ g.status = "returned" /\ g.ret = <<>>
    /\ ev.op = "token_post" /\ ev.res = "fail" /\ g.token_reqs = 3 /\ g.gets >= 1

ArrivedRows == [k \in 1..Len(g.arrived) |-> DetailRow(g.arrived[k][1], g.arrived[k][2])]
HeaderCount == Cardinality({k \in 1..Len(file_lines) : file_lines[k] = DetailHeader})
FreshFile == ~g.file0.exists \/ g.file0.lines = <<>>

(* C4: after N >= 1 successful detail fetches to an initially absent or empty
   path the file holds exactly one header row, as its first line, followed by
   all data rows in arrival order; appending to a file that already holds a
   header and rows adds only data rows. *)
C4_HeaderOnce ==
    main.mode = "ids" =>
       /\ (FreshFile /\ g.any_success /\ ~g.partial)
             => file_lines = <<DetailHeader>> \o ArrivedRows
       /\ (g.file0.lines = OldFile /\ ~g.partial)
             => file_lines = OldFile \o ArrivedRows
       /\ file_lines # <<>>
             => file_lines[1] = DetailHeader /\ HeaderCount = 1

(* two successful fetches have put three rows into an initially empty file *)
C4_Witness ==
    /\ main.mode = "ids" /\ g.file0.exists /\ g.file0.lines = <<>>
    /\ g.calls = 2 /\ ~g.failed /\ ~g.partial /\ main.pc = "idle"
    /\ Len(g.arrived) = 3 /\ Len(file_lines) = 4

(* C5 as stated: under find_ids and under
   find_recordings_by_conversation_id alike, the content the file held before
   an operation is a prefix of its content afterwards. *)
C5_Original == [][IsPrefix(file_lines, file_lines')]_vars

(* C5 as amended: find_recordings_by_conversation_id only appends, and so does
   find_ids once it has opened the file; but find_ids opens the file in write
   mode, which discards what the file held: after the open the file holds the
   time-range header alone. *)
C5_AppendOnly ==
    [][/\ ev'.op # "open" => IsPrefix(file_lines, file_lines')
       /\ ev'.op = "open" => file_lines' = <<RangeHeader>>]_vars

(* find_ids has opened a file that held rows of an earlier run *)
C5_Witness ==
    ev.op = "open" /\ g.file_before = OldFile /\ file_lines = <<RangeHeader>>

(* C6: the n-th page query of a find_ids run addresses page n (the first one
   carries no pageNumber), so no page is requested twice. *)
C6_NthQueryAddressesPageN ==
    \A n \in 1..Len(g.pages) : g.pages[n] = n

(* after a failure the loop is left, and the file holds what was written *)
C7_State ==
    (main.mode = "range" /\ g.range_failed)
       => /\ rng.pc \in {"closing", "idle"}
          /\ file_lines = <<RangeHeader>> \o g.range_rows

(* after a failure find_ids only returns *)
C7_Step ==
    (main.mode = "range" /\ g.range_failed /\ rng.pc = "closing")
       => /\ ev'.op = "return"
          /\ file_lines' = file_lines
          /\ g'.queries = g.queries

(* C7: a failure of a page query, or an exception while a page is processed,
   ends the page loop at once: no further page query, no further detail
   request, no retry of the page, and the rows written before are in the file
   when find_ids returns. *)
C7_AbortKeepsRows == []C7_State /\ [][C7_Step]_vars

(* find_ids has returned after a failure on its 2nd page, with rows of the 1st *)
C7_Witness ==
    /\ ev.op = "return" /\ ev.res = "find_ids" /\ g.range_failed
    /\ g.queries = 2 /\ Len(g.range_rows) >= 1 /\ Len(file_lines) >= 2

(* C8: the conversations of a page are processed in the order received, each
   one's detail request and rows before the next one's detail request, and the
   next page query comes after every conversation of the page. *)
C8_Order ==
    main.mode = "range" =>
       /\ rng.pc \in {"conv_get", "conv_write", "conv_sleep"}
             => IsPrefix(g.got, rng.conversations)
       /\ IsPrefix(g.done, g.got)
       /\ Len(g.got) - Len(g.done) <= 1
       /\ ev.op = "conv_get" => Len(g.done) >= Len(g.got) - 1
       /\ g.page_complete

(* the 2nd conversation of a 2nd page is requested after rows were written *)
C8_Witness ==
    /\ ev.op = "conv_get" /\ g.queries = 2 /\ g.got = <<"c1", "c2">>
    /\ Len(g.done) >= 1 /\ Len(g.range_rows) >= 1

(* C9: main() applies exactly floor(N/50) cooldowns of 5 seconds over its N
   identifiers (after truncation), one right after the processing of each item
   whose 1-based position is a multiple of 50 and none anywhere else, whichever
   items failed. *)
C9_Cooldowns ==
    main.mode = "main" =>
       /\ main.pc \in {"in_fetch", "cooldown"} => g.cooldowns = (main.i - 1) \div 50
       /\ main.pc \in {"loop", "done"} => g.cooldowns = main.i \div 50
       /\ ev.op = "sleep_cooldown"
             => /\ ev.ms = 5000
                /\ main.i % 50 = 0
                /\ g.cooled_at = main.i
                /\ g.calls = main.i
       /\ main.pc = "cooldown" => main.i % 50 = 0
       /\ (main.pc = "done" /\ main.error = "none")
             => g.cooldowns = Min(main.n_input, 800) \div 50

(* of 120 identifiers the 100th failed, and its cooldown is the second *)
C9_Witness ==
    /\ main.n_input = 120 /\ ev.op = "sleep_cooldown" /\ main.i = 100
    /\ g.failed /\ g.cooldowns = 2

(* C10: main() hands exactly the first min(N, 800) identifiers to the detail
   fetch, each once and in input order, and no failed fetch prevents the fetch
   of a later identifier. *)
C10_Isolation ==
    main.mode = "main" =>
       /\ g.calls = main.i
       /\ g.calls <= 800
       /\ main.pc = "in_fetch" => fetch.conv = IdAt(g.calls)
       /\ ev.op = "call_fetch" => ev.k = g.calls /\ ev.res = IdAt(g.calls)
       /\ (main.pc = "done" /\ main.error = "none")
             => g.calls = Min(main.n_input, 800)
       /\ main.error # "none" => g.calls = 0

(* the 800th of 801 identifiers is fetched after the fetch of the 799th failed *)
C10_Witness ==
    /\ main.n_input = 801 /\ ev.op = "call_fetch" /\ g.calls = 800 /\ g.failed

(* C11: in identifier-list mode the detail GETs of two successively processed
   identifiers are always separated by at least one sleep, also when both
   fetches succeed at their first attempt and the position of the first is no
   multiple of 50.  Stated on the first detail GET of every call: the run has
   slept since the detail GET before it. *)
C11_SleepBetweenIdentifiers ==
    [][(main.mode = "main" /\ ev'.op = "detail_get" /\ g'.gets = 1) => g.rested]_vars

(* C12: a detail response {"entities": [r1, r2]} yields the list [r1, r2], a
   bare array [r1, r2] yields [r1, r2], and a single object r1 without an
   'entities' key yields [r1]; the value the call returns is that list, in the
   order of the response. *)
C12_Normalization ==
    (ev.op = "detail_get" /\ ev.res = "ok") =>
       /\ g.body = JEntities(JList(<<R1, R2>>))
             => g.status = "returned" /\ ~g.failed /\ g.ret = <<R1, R2>>
       /\ g.body = JList(<<R1, R2>>)
             => g.status = "returned" /\ ~g.failed /\ g.ret = <<R1, R2>>
       /\ g.body = JBare(R1)
             => g.status = "returned" /\ ~g.failed /\ g.ret = <<R1>>
       /\ (g.body.t = "list" /\ ~g.failed) => g.ret = g.body.items

(* a response that is one recording object has been returned as a list of one *)
C12_Witness ==
    /\ ev.op = "detail_get" /\ ev.res = "ok" /\ g.body = JBare(R1)
    /\ g.ret = <<R1>> /\ file_lines[Len(file_lines)][2] = "rec1"

(* the column of a field: its source value, or the sentinel when absent *)
Column(v) == IF v = Absent THEN "N/A" ELSE v

(* the recording of the last response and the row the call appended for it *)
LastRecording == g.body.items[1]
LastRow == file_lines[Len(file_lines)]
RowWritten ==
    /\ ev.op = "detail_get" /\ ev.res = "ok"
    /\ g.body.t = "list" /\ Len(g.body.items) = 1 /\ g.body.items[1].t = "dict"

(* C13 as stated: the row carries the source value of every field that is
   present and 'N/A' in exactly the columns whose field is absent, the
   Media Type column being that of the field mediaType; downloadUri is
   mediaUris["0"] when present, otherwise download.url, otherwise 'N/A'. *)
C13_Original ==
    RowWritten =>
       /\ LastRow[2] = Column(LastRecording.id)
       /\ LastRow[3] = Column(LastRecording.startTime)
       /\ LastRow[4] = Column(LastRecording.endTime)
       /\ LastRow[5] = Column(LastRecording.mediaType)
       /\ LastRow[6] = Column(LastRecording.fileState)
       /\ LastRow[7] = (IF LastRecording.mediaUri0 # Absent THEN LastRecording.mediaUri0
                          ELSE Column(LastRecording.downloadUrl))

(* C13 as amended: as stated, except that the Media Type column carries the
   key 'media' when the record has it, otherwise the key 'mediaType',
   otherwise 'N/A'. *)
C13_SentinelRows ==
    RowWritten =>
       /\ LastRow[1] = g.arrived[Len(g.arrived)][1]
       /\ LastRow[2] = Column(LastRecording.id)
       /\ LastRow[3] = Column(LastRecording.startTime)
       /\ LastRow[4] = Column(LastRecording.endTime)
       /\ LastRow[5] = (IF LastRecording.media # Absent THEN LastRecording.media
                          ELSE Column(LastRecording.mediaType))
       /\ LastRow[6] = Column(LastRecording.fileState)
       /\ LastRow[7] = (IF LastRecording.mediaUri0 # Absent THEN LastRecording.mediaUri0
                          ELSE Column(LastRecording.downloadUrl))

(* a record with only startTime, fileState and download.url has been exported *)
C13_Witness ==
    /\ RowWritten
    /\ LastRecording = Rec(Absent, "s1", Absent, Absent, Absent, "AVAILABLE", Absent,
                            "dl1", NoDuration, Absent)
    /\ LastRow = <<g.arrived[Len(g.arrived)][1], "N/A", "s1", "N/A", "N/A", "AVAILABLE", "dl1">>

(* the calendar: the day after a date *)
C14_LastDay(year, month) ==
    CASE month \in {4, 6, 9, 11} -> 30
      [] month = 2 -> (IF year % 400 = 0 \/ (year % 4 = 0 /\ year % 100 # 0) THEN 29 ELSE 28)
      [] OTHER -> 31
C14_DayAfter(date) ==
    IF date.day < C14_LastDay(date.year, date.month)
    THEN <<date.year, date.month, date.day + 1>>
    ELSE IF date.month < 12 THEN <<date.year, date.month + 1, 1>>
    ELSE <<date.year + 1, 1, 1>>

(* C14: for every valid pair of dates (start, end) given to find_ids the
   interval of the query runs from start at 00:00:00 to midnight of the day one
   calendar day after end, across month and year boundaries too; start = end =
   2024-01-01 gives 2024-01-01T00:00:00Z/2024-01-02T00:00:00Z. *)
C14_InclusiveEnd ==
    (main.mode = "range" /\ rng.pc # "idle") =>
       LET start == g.dates[1]
           after == C14_DayAfter(g.dates[2])
       IN  /\ rng.interval =
                  <<(<<start.year, start.month, start.day, "T", 0, 0, 0>>), "Z/",
                    (<<after[1], after[2], after[3], "T", 0, 0, 0>>), "Z">>
           /\ g.dates = <<Date(2024, 1, 1), Date(2024, 1, 1)>>
                 => rng.interval = <<(<<2024, 1, 1, "T", 0, 0, 0>>), "Z/",
                                     (<<2024, 1, 2, "T", 0, 0, 0>>), "Z">>

(* a query was sent for a range that ends on the last day of a leap February
   of a century year *)
C14_Witness ==
    /\ ev.op = "page_post" /\ g.dates = <<Date(2023, 12, 31), Date(2000, 2, 29)>>
    /\ rng.interval[3] = <<2000, 3, 1, "T", 0, 0, 0>>

(* the constructor's authenticate() has raised: there is no token *)
C15_StartupFailed == main.mode = "main" /\ access_token = None /\ auth.pc = "idle"

(* C15: when the authentication at construction fails (three failed attempts,
   or a failure that is not retried) main() aborts before any work: no
   identifier is read or processed, no detail or query request is made, the
   export file is neither created nor modified, and nothing follows. *)
C15_StartupAbort ==
    /\ [](C15_StartupFailed =>
            /\ main.pc = "done" /\ main.error = "critical"
            /\ main.n_input = 0 /\ main.conversation_ids = <<>> /\ main.i = 0
            /\ g.calls = 0 /\ g.gets = 0 /\ g.queries = 0
            /\ fetch = FetchIdle /\ rng = RngIdle
            /\ ~file_exists /\ file_lines = <<>>
            /\ headers = NoHeaders
            /\ ev.op = "token_post")
    /\ [][~C15_StartupFailed]_vars

(* the third token request of the constructor has failed *)
C15_Witness ==
    /\ C15_StartupFailed /\ g.token_reqs = 3 /\ ev.res = "fail"
    /\ main.pc = "done" /\ main.error = "critical"

(* one step of a run, seen from a token response without 'access_token' *)
C16_Step ==
    /\ (ev'.op = "token_post" /\ ev'.res = "nokey")
          => /\ g'.auth_status = "raised"
             /\ auth'.pc = "idle"
             /\ access_token' = access_token
             /\ headers' = headers
    /\ (ev.op = "token_post" /\ ev.res = "nokey")
          => /\ ev'.op # "sleep_auth"
             /\ (ev'.op = "token_post" => g'.token_reqs = 1)

(* C16: when a token request succeeds at transport level but its body carries
   no access token, authenticate() fails at once: no further token request of
   that call, no backoff sleep, and token and headers stay as they were. *)
C16_NoRetryOnErrorBody == [][C16_Step]_vars

(* the 2nd token request of a re-authentication got a body without a token *)
C16_Witness ==
    /\ ev.op = "token_post" /\ ev.res = "nokey" /\ g.token_reqs = 2
    /\ g.auth_status = "raised" /\ g.gets >= 1
    /\ access_token = "t1" /\ headers = <<"Bearer", "t1">>

(* the headers are unset together with the token, or carry the token *)
C17_Consistent ==
    \/ headers = <<>> /\ access_token = "None"
    \/ headers = <<"Bearer", access_token>>

(* token and headers change only in a token request that succeeds *)
C17_Step ==
    /\ (access_token' # access_token \/ headers' # headers)
          => ev'.op = "token_post" /\ ev'.res = "ok" /\ g'.auth_status = "returned"
    /\ (ev'.op = "token_post" /\ g'.auth_status # "returned")
          => access_token' = access_token /\ headers' = headers

(* C17: at every point the request headers are unset together with the token
   or carry exactly the current bearer token; an authenticate() that fails
   leaves both as they were; nothing but authenticate() changes either. *)
C17_SessionConsistency == []C17_Consistent /\ [][C17_Step]_vars

(* a re-authentication has failed in a session that an earlier one renewed *)
C17_Witness ==
    /\ ev.op = "token_post" /\ ev.res = "fail" /\ g.auth_status = "raised"
    /\ g.calls = 2 /\ access_token = "t2" /\ headers = <<"Bearer", "t2">>

(* an attempt that another attempt of the same call follows has not written *)
C18_Step ==
    (fetch.pc # "idle" /\ fetch'.pc # "idle")
       => file_lines' = file_lines /\ file_exists' = file_exists

(* C18: within one call of find_recordings_by_conversation_id the header and
   the data rows are appended during at most one attempt, the one that ends
   the call: no attempt that is retried has written to the file. *)
C18_WriteOnce ==
    /\ [](g.write_attempts <= 1 /\ (g.write_attempts = 1 => g.status # "running"))
    /\ [][C18_Step]_vars

(* the 3rd attempt of a call has written the header and two rows *)
C18_Witness ==
    /\ ev.op = "detail_get" /\ ev.res = "ok" /\ g.gets = 3
    /\ g.write_attempts = 1 /\ g.hdr_in_call /\ g.rows_in_call = 2
    /\ Len(file_lines) = 3

(* what the current or last fetch call has appended to the file *)
AppendedLines == SubSeq(file_lines, g.lines_at_call + 1, Len(file_lines))
AppendedRows ==
    Cardinality({k \in 1..Len(AppendedLines) : AppendedLines[k] # DetailHeader})
CallEnded == main.mode = "ids" /\ g.calls >= 1 /\ g.status = "returned"

(* the elements of the last response body before the first one that is no
   JSON object *)
ResponseItems ==
    IF g.body.t = "list" THEN g.body.items
    ELSE IF g.body.t = "dict" /\ g.body.entities.t = "list" THEN g.body.entities.items
    ELSE IF g.body.t = "dict" /\ g.body.entities.t # "nokey" THEN <<g.body.entities>>
    ELSE <<g.body>>
LeadingObjects ==
    Cardinality({k \in 1..Len(ResponseItems) :
                    \A j \in 1..k : ResponseItems[j].t = "dict"})

(* C19 as stated: the number of data rows a call appended equals the length of
   the list it returns, and a call that returns the empty list because of a
   failure has appended no header and no data row. *)
C19_Original ==
    CallEnded =>
       /\ AppendedRows = Len(g.ret)
       /\ g.failed => AppendedLines = <<>>

(* C19 as amended: a call that succeeds has appended as many data rows as the
   list it returns is long; a call that fails before its response is read
   (transport or status failure, failed re-authentication, a body that is no
   JSON, a file that cannot be opened) has appended nothing; a call that fails
   on an element of the response that is no JSON object returns the empty list
   although it has appended the header, if the file was empty, and the rows of
   the elements before that one. *)
C19_RowsAndList ==
    CallEnded =>
       /\ ~g.failed => AppendedRows = Len(g.ret)
       /\ (g.failed /\ ~(ev.op = "detail_get" /\ ev.res = "ok")) => AppendedLines = <<>>
       /\ (g.failed /\ ev.op = "detail_get" /\ ev.res = "ok")
             => /\ g.ret = <<>>
                /\ AppendedRows = LeadingObjects
                /\ LeadingObjects < Len(ResponseItems)
                /\ Len(AppendedLines) - AppendedRows = (IF g.lines_at_call = 0 THEN 1 ELSE 0)

(* a call has returned the empty list after it appended the header and a row *)
C19_Witness ==
    /\ CallEnded /\ g.failed /\ g.ret = <<>>
    /\ g.lines_at_call = 0 /\ Len(file_lines) = 2 /\ AppendedRows = 1

(* what is left of authenticate(): 6 before its 1st request, 2 before its 3rd *)
C20_AuthRank == 2 * (3 - auth.attempt) - (IF auth.pc = "sleep" THEN 1 ELSE 0)

(* what is left of a fetch call: within attempt k the detail GET, then the
   re-authentication, then the backoff; the authenticate() of line 196 comes
   before the 1st attempt *)
C20_Rank ==
    CASE fetch.pc = "auth_start" -> 32 + C20_AuthRank
      [] fetch.pc = "get" -> 8 * (3 - fetch.attempt) + 7
      [] fetch.pc = "reauth" -> 8 * (3 - fetch.attempt) + C20_AuthRank
      [] fetch.pc = "backoff" -> 8 * (3 - fetch.attempt) + 1
      [] OTHER -> 0

C20_Bounds ==
    /\ g.gets <= 3
    /\ g.reauths <= 3
    /\ g.call_token_reqs <= 9
    /\ ~g.start_auth => g.reauths <= 2 /\ g.call_token_reqs <= 6
    /\ (ev.op = "call_fetch" /\ fetch.pc = "get") => ~g.start_auth
    /\ C20_Rank >= 0
    /\ fetch.pc # "idle" => C20_Rank >= 1 /\ ENABLED Next
    /\ (main.mode = "range" /\ rng.pc = "closing") => g.range_failed \/ ~rng.nextUri

C20_Step ==
    /\ (fetch.pc # "idle" /\ fetch'.pc # "idle") => C20_Rank' < C20_Rank
    /\ (rng.pc = "conv_sleep" /\ rng.idx = Len(rng.conversations)
         /\ rng.nextUri /\ ~g.range_failed) => rng'.pc = "query"

(* C20 as stated: every call issues at most 3 detail GETs, at most 2
   re-authentications and at most 6 token requests, whatever the server
   answers. *)
C20_Original == g.gets <= 3 /\ g.reauths <= 2 /\ g.call_token_reqs <= 6

(* C20 as amended: every call ends after at most 3 detail GETs, at most 3 calls
   of authenticate() and at most 9 token requests (2 and 6 when the stored
   token is non-empty as the call starts): every step of a call lowers a rank
   that starts below 40, and a call that has not ended can always take a step;
   the page loop of find_ids goes on after a page that carries continuation
   evidence and is left only after a page without it or after a failure. *)
C20_BoundedWork == []C20_Bounds /\ [][C20_Step]_vars

(* a call that found an empty token has made 3 detail GETs and 9 token requests *)
C20_Witness ==
    /\ g.start_auth /\ g.gets = 3 /\ g.reauths = 3 /\ g.call_token_reqs = 9
    /\ g.status = "returned"

====
